---- MODULE Spec2Model ----
(***************************************************************************)
(* A model of the Elden Ring save converter (src/convert_save.py).         *)
(*                                                                         *)
(* A save file is a byte buffer of about 26 MB.  The model keeps the real  *)
(* layout offsets of the source and represents a buffer sparsely: its      *)
(* length, and the cells that are not the zero byte.  A cell is <<b>> for  *)
(* a plain byte b, or <<i, s>> for byte i of the MD5 digest of the byte    *)
(* string s: MD5 is modelled as an ideal hash (two digests are equal       *)
(* exactly when the hashed strings are equal).                             *)
(*                                                                         *)
(* A 64-bit identifier does not fit TLC's integers; it is kept as four     *)
(* 16-bit limbs, most significant first, and compared limb by limb.        *)
(***************************************************************************)
EXTENDS Integers, Sequences, FiniteSets, TLC

VARIABLES
  pc,            \* position of the running operation
  data,          \* the bytearray being worked on
  orig,          \* the buffer as it was handed in
  first,         \* the buffer after the first recalculate_checksums
  passes,        \* number of recalculate_checksums calls applied to data
  results,       \* what validate_checksums returned (<<>> before the call)
  save_type,     \* SaveType of the operation
  file_path,     \* the file name's suffix, or NoPath
  old_steam_id,  \* identifier searched for (limbs), or NoneId
  new_steam_id,  \* identifier written (limbs), or NoneId
  locations,     \* offsets returned by replace_steam_id
  offset,        \* replace_steam_id's search offset
  found,         \* what find_steam_ids returned
  disk,          \* the output location: [writes, content]
  err,           \* the error raised, or NoError
  gui            \* the window: button, main thread, workers, callbacks

vars == <<pc, data, orig, first, passes, results, save_type, file_path,
          old_steam_id, new_steam_id, locations, offset, found, disk, err, gui>>

\* the variables of the command-line operations
convert_vars == <<pc, data, orig, first, passes, results, save_type,
                  file_path, old_steam_id, new_steam_id, locations, offset,
                  found, disk, err>>

----------------------------------------------------------------------------
(* Bounds of the model *)

\* input lengths are taken within MaxDelta bytes of every layout point
MaxDelta == 1

\* patcher inputs: at most MaxWords 4-byte words after at most MaxLead bytes
MaxWords == 4
MaxLead == 1

\* converter inputs hold at most MaxIds identifiers
MaxIds == 2

\* locator inputs hold at most MaxCandidates consecutive 8-byte values
MaxCandidates == 3

\* the convert button is clicked at most MaxClicks times, and one conversion
\* reports at most MaxLogs messages through its callback
MaxClicks == 3
MaxLogs == 1

----------------------------------------------------------------------------
(* SaveType and the layout constants *)

VANILLA == "vanilla"
SEAMLESS_COOP == "seamless_coop"
SaveTypes == {VANILLA, SEAMLESS_COOP}

SLOT_DATA_LENGTH == 2621440
SLOT_STRIDE == 2621456
SLOT_COUNT == 10
FIRST_SLOT_CHECKSUM == 768
FIRST_SLOT_DATA == 784
COOP_GENERAL_CHECKSUM_START == 26215328
COOP_GENERAL_CHECKSUM_END == 26215344
COOP_GENERAL_DATA_START == 26215344
COOP_GENERAL_DATA_END == 26608560
VANILLA_GENERAL_CHECKSUM_START == 26215328
VANILLA_GENERAL_CHECKSUM_END == 26215344
VANILLA_GENERAL_DATA_START == 26215344
VANILLA_GENERAL_DATA_END == 26221488
VANILLA_FILE_SIZE == 26214400
SEAMLESS_COOP_FILE_SIZE == 28967888
\* length of an MD5 digest, the 16 of "checksum_offset + 16"
DIGEST_SIZE == 16

Max(a, b) == IF a > b THEN a ELSE b
Min(a, b) == IF a < b THEN a ELSE b
SetMin(S) == CHOOSE x \in S : \A y \in S : x <= y

----------------------------------------------------------------------------
(* Byte buffers (bytes / bytearray) *)

ZeroCell == <<0>>

\* the buffer of length n whose byte at i \in DOMAIN f is f[i], zero elsewhere
Buf(n, f) ==
  [len |-> n, m |-> [i \in {j \in DOMAIN f : f[j] # ZeroCell} |-> f[i]]]

EmptyBuf == Buf(0, <<>>)
Zeros(n) == Buf(n, <<>>)

\* data[i]
At(b, i) == IF i \in DOMAIN b.m THEN b.m[i] ELSE ZeroCell

\* Python clamps the (non-negative) bounds of a slice to the length
ClampLo(b, s) == Min(s, b.len)
ClampHi(b, s, e) == Max(Min(e, b.len), ClampLo(b, s))

\* data[s:e]
Slice(b, s, e) ==
  LET s1 == ClampLo(b, s)
      e1 == ClampHi(b, s, e)
  IN  Buf(e1 - s1,
          [i \in {j - s1 : j \in {k \in DOMAIN b.m : s1 <= k /\ k < e1}} |->
             At(b, i + s1)])

\* data[s:e] = v on a bytearray: the clamped slice is replaced by v, so the
\* buffer grows when the slice is shorter than v
SetSlice(b, s, e, v) ==
  LET s1 == ClampLo(b, s)
      e1 == ClampHi(b, s, e)
      shift == v.len - (e1 - s1)
      D == {k \in DOMAIN b.m : k < s1}
           \cup {s1 + k : k \in DOMAIN v.m}
           \cup {k + shift : k \in {j \in DOMAIN b.m : j >= e1}}
  IN  Buf(b.len + shift,
          [i \in D |-> IF i < s1 THEN At(b, i)
                       ELSE IF i < s1 + v.len THEN At(v, i - s1)
                       ELSE At(b, i - shift)])

\* hashlib.md5(s).digest(): 16 bytes that identify s
Md5(s) == Buf(DIGEST_SIZE, [i \in 0 .. DIGEST_SIZE - 1 |-> <<i, s>>])

----------------------------------------------------------------------------
(* The layout: where each checksum and each hashed range lies *)

SlotChecksumOffset(slot) == FIRST_SLOT_CHECKSUM + (slot * SLOT_STRIDE)
SlotDataStart(slot) == FIRST_SLOT_DATA + (slot * SLOT_STRIDE)
SlotDataEnd(slot) == SlotDataStart(slot) + SLOT_DATA_LENGTH

GeneralChecksumStart(st) ==
  IF st = SEAMLESS_COOP THEN COOP_GENERAL_CHECKSUM_START
  ELSE VANILLA_GENERAL_CHECKSUM_START
GeneralChecksumEnd(st) ==
  IF st = SEAMLESS_COOP THEN COOP_GENERAL_CHECKSUM_END
  ELSE VANILLA_GENERAL_CHECKSUM_END
GeneralDataStart(st) ==
  IF st = SEAMLESS_COOP THEN COOP_GENERAL_DATA_START
  ELSE VANILLA_GENERAL_DATA_START
GeneralDataEnd(st) ==
  IF st = SEAMLESS_COOP THEN COOP_GENERAL_DATA_END
  ELSE VANILLA_GENERAL_DATA_END

\* the reference file size of a variant
FileSize(st) ==
  IF st = SEAMLESS_COOP THEN SEAMLESS_COOP_FILE_SIZE ELSE VANILLA_FILE_SIZE

\* the eleven [start, end) ranges that are hashed, by slot index 0..10
DataRange(st, slot) ==
  IF slot < SLOT_COUNT THEN <<SlotDataStart(slot), SlotDataEnd(slot)>>
  ELSE <<GeneralDataStart(st), GeneralDataEnd(st)>>

\* the eleven [start, end) ranges that hold a digest, by slot index 0..10
ChecksumRange(st, slot) ==
  IF slot < SLOT_COUNT
  THEN <<SlotChecksumOffset(slot), SlotChecksumOffset(slot) + DIGEST_SIZE>>
  ELSE <<GeneralChecksumStart(st), GeneralChecksumEnd(st)>>

----------------------------------------------------------------------------
(* recalculate_checksums and validate_checksums *)

\* one pass of the loop "for slot in range(SLOT_COUNT)"
RecalcSlot(d, slot) ==
  LET checksum_offset == SlotChecksumOffset(slot)
      slot_data == Slice(d, SlotDataStart(slot), SlotDataEnd(slot))
      new_checksum == Md5(slot_data)
  IN  SetSlice(d, checksum_offset, checksum_offset + DIGEST_SIZE, new_checksum)

RECURSIVE RecalcSlots(_, _)
RecalcSlots(d, slot) ==
  IF slot >= SLOT_COUNT THEN d
  ELSE RecalcSlots(RecalcSlot(d, slot), slot + 1)

\* slot 10 (general)
RecalcGeneral(d, st) ==
  LET general_data == Slice(d, GeneralDataStart(st), GeneralDataEnd(st))
      new_checksum == Md5(general_data)
  IN  SetSlice(d, GeneralChecksumStart(st), GeneralChecksumEnd(st), new_checksum)

RecalculateChecksums(d, st) == RecalcGeneral(RecalcSlots(d, 0), st)

ValidateSlot(d, slot) ==
  LET checksum_offset == SlotChecksumOffset(slot)
      stored == Slice(d, checksum_offset, checksum_offset + DIGEST_SIZE)
      computed == Md5(Slice(d, SlotDataStart(slot), SlotDataEnd(slot)))
  IN  <<slot, stored = computed>>

ValidateGeneral(d, st) ==
  LET stored == Slice(d, GeneralChecksumStart(st), GeneralChecksumEnd(st))
      computed == Md5(Slice(d, GeneralDataStart(st), GeneralDataEnd(st)))
  IN  <<10, stored = computed>>

ValidateChecksums(d, st) ==
  [i \in 1 .. SLOT_COUNT |-> ValidateSlot(d, i - 1)]
    \o <<ValidateGeneral(d, st)>>

----------------------------------------------------------------------------
(* 64-bit identifiers: four 16-bit limbs, most significant first *)

\* 76561197960265728 = 0x0110000100000000
MIN_STEAM_ID == <<272, 1, 0, 0>>
\* 76561199999999999 = 0x011000017993DFFF
MAX_STEAM_ID == <<272, 1, 31123, 57343>>

\* a <= b on unsigned 64-bit values
Leq64(a, b) ==
  \/ a[1] < b[1]
  \/ a[1] = b[1] /\ a[2] < b[2]
  \/ a[1] = b[1] /\ a[2] = b[2] /\ a[3] < b[3]
  \/ a[1] = b[1] /\ a[2] = b[2] /\ a[3] = b[3] /\ a[4] <= b[4]

\* "76561197960265728 <= val <= 76561199999999999"
InSteamIdRange(val) == Leq64(MIN_STEAM_ID, val) /\ Leq64(val, MAX_STEAM_ID)

\* byte i (0 the least significant) of an identifier
ByteOf(id, i) ==
  LET limb == id[4 - (i \div 2)]
  IN  IF i % 2 = 0 THEN limb % 256 ELSE limb \div 256

\* struct.pack('<Q', id): eight bytes, least significant first
Pack(id) == Buf(8, [i \in 0 .. 7 |-> <<ByteOf(id, i)>>])

\* a cell that holds a plain byte; a digest byte is opaque
IsPlain(c) == Len(c) = 1
AllPlain(b) == \A i \in DOMAIN b.m : IsPlain(b.m[i])

\* struct.unpack('<Q', b)[0] of eight plain bytes
Unpack(b) ==
  LET limb(j) == At(b, 2 * j)[1] + 256 * At(b, 2 * j + 1)[1]
  IN  <<limb(3), limb(2), limb(1), limb(0)>>

----------------------------------------------------------------------------
(* find_steam_ids *)

\* the offsets p whose window [p, p + 8) holds a byte that is not zero; a
\* window of zero bytes unpacks to 0, which is below MIN_STEAM_ID, and it
\* matches no pattern that has a byte other than zero
Touch(b) == {j - k : j \in DOMAIN b.m, k \in 0 .. 7} \cap Nat

\* the offsets "range(0, len(data) - 8, 4)" visits
ScanStop(b) == b.len - 8
ScanOffsets(b) == {i \in Touch(b) : i % 4 = 0 /\ i < ScanStop(b)}

\* the elements of a finite set of integers, ascending
RECURSIVE Ascending(_)
Ascending(S) ==
  IF S = {} THEN <<>>
  ELSE LET x == SetMin(S) IN <<x>> \o Ascending(S \ {x})

\* list of (offset, steam_id), in the order of the loop
FindSteamIds(b) ==
  LET hits == {i \in ScanOffsets(b) :
                 /\ AllPlain(Slice(b, i, i + 8))
                 /\ InSteamIdRange(Unpack(Slice(b, i, i + 8)))}
      order == Ascending(hits)
  IN  [k \in 1 .. Len(order) |->
         <<order[k], Unpack(Slice(b, order[k], order[k] + 8))>>]

----------------------------------------------------------------------------
(* detect_save_type *)

\* str.lower() on the suffixes the model uses
Lower(suffix) ==
  CASE suffix = ".SL2" -> ".sl2"
    [] suffix = ".Sl2" -> ".sl2"
    [] suffix = ".CO2" -> ".co2"
    [] suffix = ".Co2" -> ".co2"
    [] suffix = ".BAK" -> ".bak"
    [] OTHER -> suffix

\* the threshold without its tolerance
SizeThresholdExact == SEAMLESS_COOP_FILE_SIZE

\* "SEAMLESS_COOP_FILE_SIZE - 1000"
SizeThreshold == SEAMLESS_COOP_FILE_SIZE - 1000

\* fp is the suffix of the Path, or "None" when no path is given; a Path is
\* always true in "if file_path:"
DetectSaveType(d, fp) ==
  IF fp # "None" /\ Lower(fp) = ".sl2" THEN VANILLA
  ELSE IF fp # "None" /\ Lower(fp) = ".co2" THEN SEAMLESS_COOP
  ELSE IF d.len >= SizeThreshold THEN SEAMLESS_COOP
  ELSE VANILLA

----------------------------------------------------------------------------
(* get_primary_steam_id *)

\* "steam_id_offset = 0x019003B4"
STEAM_ID_OFFSET == 26215348

\* the value counted most often, the one found last among equals
MostCommonLastSeen(fnd) ==
  LET count(v) == Cardinality({k \in 1 .. Len(fnd) : fnd[k][2] = v})
      maxidx == CHOOSE k \in 1 .. Len(fnd) :
                  /\ \A j \in 1 .. Len(fnd) :
                       count(fnd[j][2]) <= count(fnd[k][2])
                  /\ \A j \in 1 .. Len(fnd) :
                       count(fnd[j][2]) = count(fnd[k][2]) => j <= k
  IN  fnd[maxidx][2]

\* Counter(...).most_common(1)[0][0]: the value counted most often; among
\* equals the one inserted first, that is the one found first
MostCommon(fnd) ==
  LET count(v) == Cardinality({k \in 1 .. Len(fnd) : fnd[k][2] = v})
      best == SetMin({k \in 1 .. Len(fnd) :
                        \A j \in 1 .. Len(fnd) :
                          count(fnd[j][2]) <= count(fnd[k][2])})
  IN  fnd[best][2]

\* the identifier, or <<>> for None
GetPrimarySteamId(d, st) ==
  LET window == Slice(d, STEAM_ID_OFFSET, STEAM_ID_OFFSET + 8)
      fnd == FindSteamIds(d)
  IN  IF /\ st = SEAMLESS_COOP
         /\ STEAM_ID_OFFSET + 8 <= d.len
         /\ AllPlain(window)
         /\ InSteamIdRange(Unpack(window))
      THEN Unpack(window)
      ELSE IF fnd # <<>> THEN MostCommon(fnd)
      ELSE <<>>

----------------------------------------------------------------------------
(* replace_steam_id *)

\* data.find(pat, off): the lowest p >= off with data[p:p+len(pat)] = pat,
\* or -1
Find(b, pat, off) ==
  LET space == IF DOMAIN pat.m = {} THEN 0 .. b.len ELSE Touch(b)
      at == {p \in space : /\ p >= off
                           /\ p + pat.len <= b.len
                           /\ Slice(b, p, p + pat.len) = pat}
  IN  IF at = {} THEN 0 - 1 ELSE SetMin(at)

\* the overwrite taking the identifier for a 32-bit value
OverwriteHalf(d, pos, new_bytes) == SetSlice(d, pos, pos + 4, new_bytes)

\* "data[pos:pos + 8] = new_bytes"
Overwrite(d, pos, new_bytes) == SetSlice(d, pos, pos + 8, new_bytes)

\* the search resumed at the next byte
NextOffsetByOne(pos) == pos + 1

\* "offset = pos + 8"
NextOffset(pos) == pos + 8

\* the loop "while True", from search offset off with locs found so far
RECURSIVE ReplaceLoop(_, _, _, _, _)
ReplaceLoop(d, old_bytes, new_bytes, locs, off) ==
  LET pos == Find(d, old_bytes, off)
  IN  IF pos = 0 - 1 THEN [data |-> d, locations |-> locs, offset |-> off]
      ELSE ReplaceLoop(Overwrite(d, pos, new_bytes), old_bytes, new_bytes,
                       Append(locs, pos), NextOffset(pos))

ReplaceSteamId(d, old_id, new_id) ==
  ReplaceLoop(d, Pack(old_id), Pack(new_id), <<>>, 0)

----------------------------------------------------------------------------
(* Values of the variables an operation does not use *)

\* the window after construction: the convert button enabled, the main
\* thread in mainloop, no worker thread, no callback scheduled
NoGui ==
  [btn |-> "normal", stack |-> <<>>, workers |-> <<>>, queue |-> <<>>,
   clicks |-> 0]

NoPath == "None"
NoneId == <<>>
NoError == "none"
NoDisk == [writes |-> 0, content |-> EmptyBuf, before |-> EmptyBuf]

----------------------------------------------------------------------------
(* Checksum engine: recalculate_checksums and validate_checksums applied   *)
(* to buffers whose length is near a boundary of the layout                *)

LayoutPoints ==
  {0, VANILLA_FILE_SIZE, SEAMLESS_COOP_FILE_SIZE}
    \cup {SlotChecksumOffset(s) : s \in 0 .. SLOT_COUNT - 1}
    \cup {SlotDataStart(s) : s \in 0 .. SLOT_COUNT - 1}
    \cup {SlotDataEnd(s) : s \in 0 .. SLOT_COUNT - 1}
    \cup UNION {{GeneralChecksumStart(st), GeneralDataStart(st),
                 GeneralDataEnd(st)} : st \in SaveTypes}

ChecksumLengths ==
  {p + d : p \in LayoutPoints, d \in (0 - MaxDelta) .. MaxDelta} \cap Nat

\* slots whose ranges get a non-zero byte in some input
MarkSlots == {0, SLOT_COUNT - 1}

\* the first byte of a checksum, the first and the last byte of its data
MarkOffsets ==
  UNION {{SlotChecksumOffset(s), SlotDataStart(s), SlotDataEnd(s) - 1} :
           s \in MarkSlots}
    \cup UNION {{GeneralChecksumStart(st), GeneralDataStart(st),
                 GeneralDataEnd(st) - 1} : st \in SaveTypes}

\* a buffer of zero bytes with at most one other byte in it
ChecksumInputs ==
  {Zeros(n) : n \in ChecksumLengths}
    \cup UNION {{Buf(n, [i \in {o} |-> <<7>>]) :
                   o \in {x \in MarkOffsets : x < n}} : n \in ChecksumLengths}

ChecksumInit ==
  /\ pc = "input"
  /\ data \in ChecksumInputs
  /\ orig = data
  /\ first = EmptyBuf
  /\ passes = 0
  /\ results = <<>>
  /\ save_type \in SaveTypes
  /\ file_path = NoPath
  /\ old_steam_id = NoneId
  /\ new_steam_id = NoneId
  /\ locations = <<>>
  /\ offset = 0
  /\ found = <<>>
  /\ disk = NoDisk
  /\ err = NoError
  /\ gui = NoGui

Recalculate ==
  /\ pc = "input"
  /\ passes < 2
  /\ data' = RecalculateChecksums(data, save_type)
  /\ passes' = passes + 1
  /\ first' = IF passes = 0 THEN data' ELSE first
  /\ UNCHANGED <<gui, pc, orig, results, save_type, file_path, old_steam_id,
                 new_steam_id, locations, offset, found, disk, err>>

Validate ==
  /\ pc = "input"
  /\ results' = ValidateChecksums(data, save_type)
  /\ pc' = "validated"
  /\ UNCHANGED <<gui, data, orig, first, passes, save_type, file_path,
                 old_steam_id, new_steam_id, locations, offset, found, disk,
                 err>>

ChecksumNext == Recalculate \/ Validate

SpecChecksum == ChecksumInit /\ [][ChecksumNext]_vars

----------------------------------------------------------------------------
(* Patcher: replace_steam_id applied to short buffers made of 4-byte words *)
(* after a few leading bytes, so that identifiers occur aligned, unaligned *)
(* and overlapping                                                         *)

\* 76561198012345678 = 0x01100001031AAD4E
TARGET_STEAM_ID == <<272, 1, 794, 44366>>
\* 0x0110000101100001: in the valid range, and equal to itself shifted by 4
PERIODIC_STEAM_ID == <<272, 1, 272, 1>>
\* 0x0101010101010101: eight equal bytes
ONES_ID == <<257, 257, 257, 257>>

PatchIds == {MIN_STEAM_ID, TARGET_STEAM_ID, PERIODIC_STEAM_ID, ONES_ID}

\* the 4-byte halves of the identifiers above
Words == {Slice(Pack(id), h, h + 4) : id \in PatchIds, h \in {0, 4}}

\* b1 + b2
Concat(b1, b2) == SetSlice(b1, b1.len, b1.len, b2)

RECURSIVE WordBuffers(_)
WordBuffers(n) ==
  IF n = 0 THEN {EmptyBuf}
  ELSE {Concat(b, w) : b \in WordBuffers(n - 1), w \in Words}

\* k bytes 0x01
Lead(k) == Buf(k, [i \in 0 .. k - 1 |-> <<1>>])

PatchInputs ==
  {Concat(Lead(k), b) :
     k \in 0 .. MaxLead, b \in UNION {WordBuffers(n) : n \in 0 .. MaxWords}}

PatchInit ==
  /\ pc = "input"
  /\ data \in PatchInputs
  /\ orig = data
  /\ first = EmptyBuf
  /\ passes = 0
  /\ results = <<>>
  /\ save_type = VANILLA
  /\ file_path = NoPath
  /\ old_steam_id \in PatchIds
  /\ new_steam_id \in PatchIds
  /\ locations = <<>>
  /\ offset = 0
  /\ found = <<>>
  /\ disk = NoDisk
  /\ err = NoError
  /\ gui = NoGui

Replace ==
  /\ pc = "input"
  /\ LET r == ReplaceSteamId(data, old_steam_id, new_steam_id)
     IN  /\ data' = r.data
         /\ locations' = r.locations
         /\ offset' = r.offset
  /\ pc' = "replaced"
  /\ UNCHANGED <<gui, orig, first, passes, results, save_type, file_path,
                 old_steam_id, new_steam_id, found, disk, err>>

PatchNext == Replace

SpecPatch == PatchInit /\ [][PatchNext]_vars

----------------------------------------------------------------------------
(* Identifier locator: find_steam_ids applied to the patcher's inputs *)

ScanInit ==
  /\ pc = "input"
  /\ data \in PatchInputs
  /\ orig = data
  /\ first = EmptyBuf
  /\ passes = 0
  /\ results = <<>>
  /\ save_type = VANILLA
  /\ file_path = NoPath
  /\ old_steam_id = NoneId
  /\ new_steam_id = NoneId
  /\ locations = <<>>
  /\ offset = 0
  /\ found = <<>>
  /\ disk = NoDisk
  /\ err = NoError
  /\ gui = NoGui

Scan ==
  /\ pc = "input"
  /\ found' = FindSteamIds(data)
  /\ pc' = "scanned"
  /\ UNCHANGED <<gui, data, orig, first, passes, results, save_type, file_path,
                 old_steam_id, new_steam_id, locations, offset, disk, err>>

ScanNext == Scan

SpecScan == ScanInit /\ [][ScanNext]_vars

----------------------------------------------------------------------------
(* Format detector: detect_save_type on lengths around the size threshold  *)

Suffixes == {"", ".sl2", ".co2", ".SL2", ".Co2", ".bak"}

DetectLengths ==
  {p + d : p \in {0, VANILLA_FILE_SIZE, SEAMLESS_COOP_FILE_SIZE - 1000,
                  SEAMLESS_COOP_FILE_SIZE},
           d \in (0 - MaxDelta) .. MaxDelta} \cap Nat

DetectInit ==
  /\ pc = "input"
  /\ data \in {Zeros(n) : n \in DetectLengths}
  /\ orig = data
  /\ first = EmptyBuf
  /\ passes = 0
  /\ results = <<>>
  /\ save_type = "undetected"
  /\ file_path \in Suffixes \cup {NoPath}
  /\ old_steam_id = NoneId
  /\ new_steam_id = NoneId
  /\ locations = <<>>
  /\ offset = 0
  /\ found = <<>>
  /\ disk = NoDisk
  /\ err = NoError
  /\ gui = NoGui

Detect ==
  /\ pc = "input"
  /\ save_type' = DetectSaveType(data, file_path)
  /\ pc' = "detected"
  /\ UNCHANGED <<gui, data, orig, first, passes, results, file_path, old_steam_id,
                 new_steam_id, locations, offset, found, disk, err>>

DetectNext == Detect

SpecDetect == DetectInit /\ [][DetectNext]_vars

----------------------------------------------------------------------------
(* Conversion orchestrator: convert_save, step by step, on files of the    *)
(* reference sizes that hold up to MaxIds identifiers                      *)

ConvertIds == {MIN_STEAM_ID, TARGET_STEAM_ID}

ConvertLengths ==
  {VANILLA_FILE_SIZE, SEAMLESS_COOP_FILE_SIZE, VANILLA_GENERAL_DATA_END}

\* where an identifier is put: in slot 0 aligned and unaligned, at the
\* fixed offset of the general section, in the last eight bytes
IdOffsets(n) == {o \in {1024, 1029, STEAM_ID_OFFSET, n - 8} : o + 8 <= n}

Place(b, o, id) == SetSlice(b, o, o + 8, Pack(id))

RECURSIVE WithIds(_, _)
WithIds(n, k) ==
  IF k = 0 THEN {Zeros(n)}
  ELSE LET less == WithIds(n, k - 1)
       IN  less \cup {Place(b, o, id) :
                        b \in less, o \in IdOffsets(n), id \in ConvertIds}

ConvertInputs == UNION {WithIds(n, MaxIds) : n \in ConvertLengths}

ConvertInit ==
  /\ pc = "start"
  /\ orig \in ConvertInputs
  /\ data = EmptyBuf
  /\ first = EmptyBuf
  /\ passes = 0
  /\ results = <<>>
  /\ save_type = "undetected"
  /\ file_path \in {".sl2", ".co2", ".bak"}
  /\ old_steam_id = NoneId
  /\ new_steam_id \in ConvertIds
  /\ locations = <<>>
  /\ offset = 0
  /\ found = <<>>
  \* output_path is the source file, or a file that does not exist yet
  /\ disk \in {[writes |-> 0, content |-> c, before |-> c] :
                 c \in {orig, EmptyBuf}}
  /\ err = NoError
  /\ gui = NoGui

\* "data = bytearray(f.read())"
ConvertRead ==
  /\ pc = "start"
  /\ data' = orig
  /\ pc' = "read"
  /\ UNCHANGED <<gui, orig, first, passes, results, save_type, file_path,
                 old_steam_id, new_steam_id, locations, offset, found, disk,
                 err>>

\* "save_type = detect_save_type(data, file_path)"
ConvertDetect ==
  /\ pc = "read"
  /\ save_type' = DetectSaveType(data, file_path)
  /\ pc' = "detected"
  /\ UNCHANGED <<gui, data, orig, first, passes, results, file_path, old_steam_id,
                 new_steam_id, locations, offset, found, disk, err>>

\* "old_steam_id = get_primary_steam_id(data, save_type)" and the two raises
ConvertLocate ==
  /\ pc = "detected"
  /\ old_steam_id' = GetPrimarySteamId(data, save_type)
  /\ IF old_steam_id' = NoneId
     THEN pc' = "failed" /\ err' = "IdentifierNotFound"
     ELSE IF old_steam_id' = new_steam_id
     THEN pc' = "failed" /\ err' = "NoOpConversion"
     ELSE pc' = "located" /\ err' = err
  /\ UNCHANGED <<gui, data, orig, first, passes, results, save_type, file_path,
                 new_steam_id, locations, offset, found, disk>>

\* "locations = replace_steam_id(data, old_steam_id, new_steam_id)"
ConvertReplace ==
  /\ pc = "located"
  /\ LET r == ReplaceSteamId(data, old_steam_id, new_steam_id)
     IN  /\ data' = r.data
         /\ locations' = r.locations
         /\ offset' = r.offset
  /\ pc' = "replaced"
  /\ UNCHANGED <<gui, orig, first, passes, results, save_type, file_path,
                 old_steam_id, new_steam_id, found, disk, err>>

\* "recalculate_checksums(data, save_type)"
ConvertRecalculate ==
  /\ pc = "replaced"
  /\ data' = RecalculateChecksums(data, save_type)
  /\ passes' = passes + 1
  /\ first' = data'
  /\ pc' = "recalculated"
  /\ UNCHANGED <<gui, orig, results, save_type, file_path, old_steam_id,
                 new_steam_id, locations, offset, found, disk, err>>

\* the write placed before the recalculation of the checksums
ConvertWriteEarly ==
  /\ pc = "replaced"
  /\ disk' = [disk EXCEPT !.writes = @ + 1, !.content = data]
  /\ pc' = "written"
  /\ UNCHANGED <<gui, data, orig, first, passes, results, save_type, file_path,
                 old_steam_id, new_steam_id, locations, offset, found, err>>

\* "with open(output_path, 'wb') as f: f.write(data)"
ConvertWrite ==
  /\ pc = "recalculated"
  /\ disk' = [disk EXCEPT !.writes = @ + 1, !.content = data]
  /\ pc' = "written"
  /\ UNCHANGED <<gui, data, orig, first, passes, results, save_type, file_path,
                 old_steam_id, new_steam_id, locations, offset, found, err>>

\* open(output_path, 'wb') raises: nothing is written
ConvertWriteFails ==
  /\ pc = "recalculated"
  /\ pc' = "failed"
  /\ err' = "WriteFailure"
  /\ UNCHANGED <<gui, data, orig, first, passes, results, save_type, file_path,
                 old_steam_id, new_steam_id, locations, offset, found, disk>>

\* "return {...}"
ConvertReturn ==
  /\ pc = "written"
  /\ pc' = "done"
  /\ UNCHANGED <<gui, data, orig, first, passes, results, save_type, file_path,
                 old_steam_id, new_steam_id, locations, offset, found, disk,
                 err>>

\* main() with --validate on the file that was written
ValidateOutput ==
  /\ pc = "done"
  /\ results' = ValidateChecksums(disk.content,
                                  DetectSaveType(disk.content, file_path))
  /\ pc' = "validated"
  /\ UNCHANGED <<gui, data, orig, first, passes, save_type, file_path,
                 old_steam_id, new_steam_id, locations, offset, found, disk,
                 err>>

ConvertNext ==
  \/ ConvertRead
  \/ ConvertDetect
  \/ ConvertLocate
  \/ ConvertReplace
  \/ ConvertRecalculate
  \/ ConvertWrite
  \/ ConvertWriteFails
  \/ ConvertReturn
  \/ ValidateOutput

Spec == ConvertInit /\ [][ConvertNext]_vars

----------------------------------------------------------------------------
(* Identifier locator: get_primary_steam_id on buffers that hold up to     *)
(* MaxCandidates consecutive 8-byte values, short ones and ones long       *)
(* enough to hold the fixed offset of the general section                  *)

\* two identifiers in the valid range and a value outside it
PrimaryValues == {MIN_STEAM_ID, TARGET_STEAM_ID, ONES_ID}

\* the values vs[1], vs[2], ... written one after the other from offset o
RECURSIVE PlaceAll(_, _, _)
PlaceAll(b, o, vs) ==
  IF vs = <<>> THEN b
  ELSE PlaceAll(Place(b, o, Head(vs)), o + 8, Tail(vs))

ValueRuns == UNION {[1 .. k -> PrimaryValues] : k \in 0 .. MaxCandidates}

\* a buffer that ends with its last value (whose window the scan does not
\* visit), one with four more bytes, and one of the Vanilla layout's length
\* with nothing or one more value at the fixed offset
PrimaryInputs ==
  {PlaceAll(Zeros(8 * Len(vs) + pad), 0, vs) : vs \in ValueRuns, pad \in {0, 4}}
    \cup {PlaceAll(Zeros(VANILLA_GENERAL_DATA_END), 1024, vs) : vs \in ValueRuns}
    \cup {Place(PlaceAll(Zeros(VANILLA_GENERAL_DATA_END), 1024, vs),
                STEAM_ID_OFFSET, v) : vs \in ValueRuns, v \in PrimaryValues}

PrimaryInit ==
  /\ pc = "input"
  /\ data \in PrimaryInputs
  /\ orig = data
  /\ first = EmptyBuf
  /\ passes = 0
  /\ results = <<>>
  /\ save_type \in SaveTypes
  /\ file_path = NoPath
  /\ old_steam_id = NoneId
  /\ new_steam_id = NoneId
  /\ locations = <<>>
  /\ offset = 0
  /\ found = <<>>
  /\ disk = NoDisk
  /\ err = NoError
  /\ gui = NoGui

\* get_primary_steam_id(data, save_type); found keeps what the scan of the
\* same buffer yields
Primary ==
  /\ pc = "input"
  /\ old_steam_id' = GetPrimarySteamId(data, save_type)
  /\ found' = FindSteamIds(data)
  /\ pc' = "located"
  /\ UNCHANGED <<gui, data, orig, first, passes, results, save_type, file_path,
                 new_steam_id, locations, offset, disk, err>>

PrimaryNext == Primary

SpecPrimary == PrimaryInit /\ [][PrimaryNext]_vars

----------------------------------------------------------------------------
(* The window: EldenRingSaveConverterApp.convert, the worker thread        *)
(* do_convert and the callbacks it hands to the main thread with           *)
(* root.after.  gui.stack holds what the main thread is inside of, the     *)
(* innermost last; empty means root.mainloop().  A frame is <<kind, w>>    *)
(* with w the worker the frame belongs to, or 0.  A message box is modal:  *)
(* it has the grab, so the convert button gets no click while one is open, *)
(* and its nested event loop may run scheduled callbacks.                  *)

MAINLOOP == <<"mainloop", 0>>

Top(g) == IF g.stack = <<>> THEN MAINLOOP ELSE g.stack[Len(g.stack)]

Push(g, f) == [g EXCEPT !.stack = Append(@, f)]

Pop(g) == [g EXCEPT !.stack = SubSeq(@, 1, Len(@) - 1)]

\* frames in which the main thread runs an event loop
EventLoops == {"mainloop", "showerror", "askyesno", "showinfo", "failed"}

InEventLoop(g) == Top(g)[1] \in EventLoops

\* the button takes a click: it is enabled and no message box has the grab
Clickable(g) ==
  /\ Top(g) = MAINLOOP
  /\ g.btn = "normal"
  /\ g.clicks < MaxClicks

Clicked(g) == [g EXCEPT !.clicks = @ + 1]

\* the button is left as it is
LeaveButton(g) == g

\* self.convert_btn.configure(state='disabled')
DisableButton(g) == [g EXCEPT !.btn = "disabled"]

\* self.convert_btn.configure(state='normal')
EnableButton(g) == [g EXCEPT !.btn = "normal"]

\* self.root.after(0, f): f is run by the main thread, in the order scheduled
After(g, f) == [g EXCEPT !.queue = Append(@, f)]

SetWorker(g, w, st) == [g EXCEPT !.workers[w].st = st]

Workers(g) == 1 .. Len(g.workers)

GuiInit ==
  /\ pc = "mainloop"
  /\ data = EmptyBuf
  /\ orig = EmptyBuf
  /\ first = EmptyBuf
  /\ passes = 0
  /\ results = <<>>
  /\ save_type = VANILLA
  /\ file_path = NoPath
  /\ old_steam_id = NoneId
  /\ new_steam_id = NoneId
  /\ locations = <<>>
  /\ offset = 0
  /\ found = <<>>
  /\ disk = NoDisk
  /\ err = NoError
  /\ gui = NoGui

\* convert() with an input that fails a check: showerror, then return
ClickRejected ==
  /\ Clickable(gui)
  /\ gui' = Push(Clicked(gui), <<"showerror", 0>>)
  /\ UNCHANGED convert_vars

DismissRejected ==
  /\ Top(gui)[1] = "showerror"
  /\ gui' = Pop(gui)
  /\ UNCHANGED convert_vars

\* convert() with valid inputs and a destination that exists and is not the
\* source: askyesno
ClickConfirm ==
  /\ Clickable(gui)
  /\ gui' = Push(Clicked(gui), <<"askyesno", 0>>)
  /\ UNCHANGED convert_vars

\* "if not messagebox.askyesno(...): return"
AnswerNo ==
  /\ Top(gui)[1] = "askyesno"
  /\ gui' = Pop(gui)
  /\ UNCHANGED convert_vars

\* askyesno returns True: the button is disabled
AnswerYes ==
  /\ Top(gui)[1] = "askyesno"
  /\ gui' = DisableButton(Push(Pop(gui), <<"convert", 0>>))
  /\ UNCHANGED convert_vars

\* convert() with valid inputs and nothing to confirm: the button is disabled
ClickDirect ==
  /\ Clickable(gui)
  /\ gui' = DisableButton(Push(Clicked(gui), <<"convert", 0>>))
  /\ UNCHANGED convert_vars

\* thread.start(), and convert() returns to the event loop it was called from
StartThread ==
  /\ Top(gui)[1] = "convert"
  /\ gui' = [Pop(gui) EXCEPT
               !.workers = Append(@, [st |-> "converting", logs |-> 0])]
  /\ UNCHANGED convert_vars

\* convert_save calls callback(msg): the worker schedules self.log(msg)
WorkerLog(w) ==
  /\ gui.workers[w].st = "converting"
  /\ gui.workers[w].logs < MaxLogs
  /\ gui' = [After(gui, <<"log", w>>) EXCEPT !.workers[w].logs = @ + 1]
  /\ UNCHANGED convert_vars

\* convert_save returns its result
WorkerReturn(w) ==
  /\ gui.workers[w].st = "converting"
  /\ gui' = SetWorker(gui, w, "returned")
  /\ UNCHANGED convert_vars

\* convert_save raises
WorkerRaise(w) ==
  /\ gui.workers[w].st = "converting"
  /\ gui' = SetWorker(gui, w, "raised")
  /\ UNCHANGED convert_vars

\* self.root.after(0, on_success), and do_convert returns
WorkerSuccess(w) ==
  /\ gui.workers[w].st = "returned"
  /\ gui' = SetWorker(After(gui, <<"on_success", w>>), w, "exited")
  /\ UNCHANGED convert_vars

\* self.root.after(0, on_error), inside the except block
WorkerError(w) ==
  /\ gui.workers[w].st = "raised"
  /\ gui' = SetWorker(After(gui, <<"on_error", w>>), w, "signalled")
  /\ UNCHANGED convert_vars

\* the worker leaves "except Exception as e": e is unbound from here on, in
\* the closure of on_error too
WorkerLeaveExcept(w) ==
  /\ gui.workers[w].st = "signalled"
  /\ gui' = SetWorker(gui, w, "exited")
  /\ UNCHANGED convert_vars

\* the main thread runs a scheduled self.log(msg); update_idletasks runs no
\* callback and takes no click
RunLog ==
  /\ InEventLoop(gui)
  /\ gui.queue # <<>>
  /\ Head(gui.queue)[1] = "log"
  /\ gui' = [gui EXCEPT !.queue = Tail(@)]
  /\ UNCHANGED convert_vars

\* on_success up to messagebox.showinfo
RunOnSuccess ==
  /\ InEventLoop(gui)
  /\ gui.queue # <<>>
  /\ Head(gui.queue)[1] = "on_success"
  /\ gui' = Push([gui EXCEPT !.queue = Tail(@)],
                 <<"showinfo", Head(gui.queue)[2]>>)
  /\ UNCHANGED convert_vars

\* showinfo is dismissed: on_success enables the button and returns
OnSuccessDone ==
  /\ Top(gui)[1] = "showinfo"
  /\ gui' = EnableButton(Pop(gui))
  /\ UNCHANGED convert_vars

\* on_error up to self.log(f"ERROR: {e}"): NameError when the worker has
\* left the except block, and then on_error ends there
RunOnError ==
  /\ InEventLoop(gui)
  /\ gui.queue # <<>>
  /\ Head(gui.queue)[1] = "on_error"
  /\ LET w == Head(gui.queue)[2]
         g == [gui EXCEPT !.queue = Tail(@)]
     IN  gui' = IF gui.workers[w].st = "exited" THEN g
               ELSE Push(g, <<"on_error", w>>)
  /\ UNCHANGED convert_vars

\* on_error at messagebox.showerror("Conversion Failed", str(e)): NameError
\* when the worker has left the except block by now
OnErrorBox ==
  /\ Top(gui)[1] = "on_error"
  /\ LET w == Top(gui)[2]
     IN  gui' = IF gui.workers[w].st = "exited" THEN Pop(gui)
               ELSE Push(Pop(gui), <<"failed", w>>)
  /\ UNCHANGED convert_vars

\* the showerror of on_error is dismissed: on_error enables the button and
\* returns
OnErrorDone ==
  /\ Top(gui)[1] = "failed"
  /\ gui' = EnableButton(Pop(gui))
  /\ UNCHANGED convert_vars

GuiNext ==
  \/ ClickRejected
  \/ DismissRejected
  \/ ClickConfirm
  \/ AnswerNo
  \/ AnswerYes
  \/ ClickDirect
  \/ StartThread
  \/ \E w \in Workers(gui) : WorkerLog(w)
  \/ \E w \in Workers(gui) : WorkerReturn(w)
  \/ \E w \in Workers(gui) : WorkerRaise(w)
  \/ \E w \in Workers(gui) : WorkerSuccess(w)
  \/ \E w \in Workers(gui) : WorkerError(w)
  \/ \E w \in Workers(gui) : WorkerLeaveExcept(w)
  \/ RunLog
  \/ RunOnSuccess
  \/ OnSuccessDone
  \/ RunOnError
  \/ OnErrorBox
  \/ OnErrorDone

SpecGui == GuiInit /\ [][GuiNext]_vars

----------------------------------------------------------------------------
(* Properties of the checksum engine *)

\* C1: after recalculate_checksums, validate_checksums on the result reports
\* true for all eleven slots (indices 0..9 and 10), whatever the buffer's
\* length and the variant
RoundTripChecksum ==
  (pc = "validated" /\ passes >= 1) =>
    /\ Len(results) = SLOT_COUNT + 1
    /\ \A i \in 1 .. Len(results) : results[i] = <<i - 1, TRUE>>

Disjoint(r1, r2) == r1[2] <= r2[1] \/ r2[2] <= r1[1]

\* C3: for the variant at hand, the eleven data ranges are pairwise disjoint
\* and every checksum range and data range ends within the variant's
\* reference file size
LayoutRangeInvariant ==
  /\ \A i, j \in 0 .. SLOT_COUNT :
       i # j => Disjoint(DataRange(save_type, i), DataRange(save_type, j))
  /\ \A i \in 0 .. SLOT_COUNT :
       /\ DataRange(save_type, i)[2] <= FileSize(save_type)
       /\ ChecksumRange(save_type, i)[2] <= FileSize(save_type)

\* C6: a second recalculate_checksums leaves the buffer exactly as the first
\* one left it (same length, same bytes)
RecomputeIdempotent == passes = 2 => data = first

\* the offsets of the eleven 16-byte checksum ranges
InChecksumRange(st, i) ==
  \E s \in 0 .. SLOT_COUNT :
    ChecksumRange(st, s)[1] <= i /\ i < ChecksumRange(st, s)[2]

\* C13: one recalculate_checksums, on a buffer of any length, leaves the
\* length of the buffer as it was and changes no byte outside the eleven
\* 16-byte checksum ranges
FrameOfRecompute ==
  passes = 1 =>
    /\ data.len = orig.len
    /\ \A i \in DOMAIN data.m \cup DOMAIN orig.m :
         ~InChecksumRange(save_type, i) => At(data, i) = At(orig, i)

----------------------------------------------------------------------------
(* Properties of the patcher *)

\* the offsets inside one of the windows [p, p + 8) of the returned list
InWindow(i, locs) ==
  \E k \in 1 .. Len(locs) : locs[k] <= i /\ i < locs[k] + 8

\* the aligned offsets of b that hold the encoding of id
AlignedOccurrences(b, id) ==
  {i \in 0 .. b.len : i % 4 = 0 /\ i + 8 <= b.len /\ Slice(b, i, i + 8) = Pack(id)}

\* C2: after replace_steam_id with old # new, no 4-byte-aligned offset of
\* the buffer holds the encoding of old
ReplacementComplete ==
  (pc = "replaced" /\ old_steam_id # new_steam_id) =>
    AlignedOccurrences(data, old_steam_id) = {}

\* C7: replace_steam_id keeps the length of the buffer and every byte that
\* lies outside the 8-byte windows at the returned offsets
PatchNonInterference ==
  pc = "replaced" =>
    /\ data.len = orig.len
    /\ \A i \in 0 .. orig.len - 1 :
         ~InWindow(i, locations) => At(data, i) = At(orig, i)

C7Witness ==
  /\ pc = "replaced"
  /\ Len(locations) >= 1
  /\ data # orig
  /\ \E i \in DOMAIN orig.m : ~InWindow(i, locations)

\* occurrences of pat in b counted left to right, resuming right after each
RECURSIVE NonOverlappingCount(_, _, _)
NonOverlappingCount(b, pat, off) ==
  LET p == Find(b, pat, off)
  IN  IF p = 0 - 1 THEN 0 ELSE 1 + NonOverlappingCount(b, pat, p + pat.len)

\* C8: the returned list is strictly ascending and as long as the number of
\* non-overlapping occurrences of old in the buffer as it was handed in
PatchedOffsetReport ==
  pc = "replaced" =>
    /\ \A k \in 1 .. Len(locations) - 1 : locations[k] < locations[k + 1]
    /\ Len(locations) = NonOverlappingCount(orig, Pack(old_steam_id), 0)

\* an occurrence of old in the original that overlaps a replaced one
C8Witness ==
  /\ pc = "replaced"
  /\ Len(locations) >= 2
  /\ \E p \in 0 .. orig.len :
       /\ p + 8 <= orig.len
       /\ Slice(orig, p, p + 8) = Pack(old_steam_id)
       /\ \A k \in 1 .. Len(locations) : locations[k] # p

----------------------------------------------------------------------------
(* Properties of the orchestrator *)

\* C4: the output location is written at most once, and what is written is
\* the buffer after the replacement and the recalculation of all eleven
\* checksums; when the primary identifier is not found or equals
\* new_steam_id, convert_save fails with an error, the buffer in memory is
\* as read and nothing is written
NoPartialWrites ==
  /\ disk.writes <= 1
  /\ disk.writes = 0 => disk.content = disk.before
  /\ disk.writes = 1 =>
       /\ pc \in {"written", "done", "validated"}
       /\ passes = 1
       /\ disk.content =
            RecalculateChecksums(
              ReplaceSteamId(orig, old_steam_id, new_steam_id).data, save_type)
  /\ pc \notin {"start", "read", "detected"} =>
       /\ GetPrimarySteamId(orig, save_type) = NoneId =>
            /\ pc = "failed" /\ err = "IdentifierNotFound"
            /\ data = orig /\ disk.writes = 0
       /\ GetPrimarySteamId(orig, save_type) = new_steam_id =>
            /\ pc = "failed" /\ err = "NoOpConversion"
            /\ data = orig /\ disk.writes = 0

C4Witness ==
  /\ pc = "written"
  /\ disk.writes = 1
  /\ Len(locations) >= 1
  /\ disk.content # disk.before
  /\ disk.content # orig

\* every offset of b that holds the encoding of id
OccurrenceOffsets(b, id) ==
  {p \in Touch(b) : p + 8 <= b.len /\ Slice(b, p, p + 8) = Pack(id)}

\* C5: a file of the vanilla reference size that holds 76561197960265728 at
\* exactly one offset, converted as Vanilla to 76561198012345678: one
\* patched offset, the digest of [0x019003B0, 0x01901BB0) stored at
\* [0x019003A0, 0x019003B0), and validate_checksums true for all eleven slots
VanillaConversionScenario ==
  ( /\ pc = "done"
    /\ orig.len = VANILLA_FILE_SIZE
    /\ save_type = VANILLA
    /\ new_steam_id = TARGET_STEAM_ID
    /\ Cardinality(OccurrenceOffsets(orig, MIN_STEAM_ID)) = 1 ) =>
    /\ Len(locations) = 1
    /\ Slice(data, VANILLA_GENERAL_CHECKSUM_START, VANILLA_GENERAL_CHECKSUM_END)
         = Md5(Slice(data, VANILLA_GENERAL_DATA_START, VANILLA_GENERAL_DATA_END))
    /\ \A i \in 1 .. SLOT_COUNT + 1 :
         ValidateChecksums(data, VANILLA)[i] = <<i - 1, TRUE>>

----------------------------------------------------------------------------
(* Properties of the format detector *)

\* no file name, or one whose suffix in lower case is neither .sl2 nor .co2
NoKnownExtension ==
  file_path = NoPath \/ Lower(file_path) \notin {".sl2", ".co2"}

\* C9 as claimed: without a known extension the result is SeamlessCoop
\* exactly when the length lies in [SEAMLESS_COOP_FILE_SIZE - 1000,
\* SEAMLESS_COOP_FILE_SIZE], and Vanilla for every other length
SizeDetectionWindow ==
  (pc = "detected" /\ NoKnownExtension) =>
    /\ save_type \in SaveTypes
    /\ save_type = SEAMLESS_COOP <=>
         /\ SEAMLESS_COOP_FILE_SIZE - 1000 <= data.len
         /\ data.len <= SEAMLESS_COOP_FILE_SIZE

\* C9 amended: without a known extension the result is SeamlessCoop exactly
\* when the length is at least SEAMLESS_COOP_FILE_SIZE - 1000, also above
\* the reference size, and Vanilla for every shorter length
SizeDetectionThreshold ==
  (pc = "detected" /\ NoKnownExtension) =>
    /\ save_type \in SaveTypes
    /\ save_type = SEAMLESS_COOP <=>
         SEAMLESS_COOP_FILE_SIZE - 1000 <= data.len

C9Witness ==
  /\ pc = "detected"
  /\ NoKnownExtension
  /\ data.len > SEAMLESS_COOP_FILE_SIZE
  /\ save_type = SEAMLESS_COOP

----------------------------------------------------------------------------
(* Properties of the identifier locator *)

\* the aligned offsets whose window lies within b and holds a value in range
ExpectedCandidates(b) ==
  {i \in 0 .. b.len : /\ i % 4 = 0
                      /\ i + 8 <= b.len
                      /\ InSteamIdRange(Unpack(Slice(b, i, i + 8)))}

\* C10: find_steam_ids returns, ascending, exactly the pairs (i, v) with i a
\* multiple of 4, i + 8 <= length and v the value of the window [i, i + 8)
\* in the valid range; the window that ends the buffer included
CandidateScanExact ==
  pc = "scanned" =>
    LET order == Ascending(ExpectedCandidates(data))
    IN  found = [k \in 1 .. Len(order) |->
                   <<order[k], Unpack(Slice(data, order[k], order[k] + 8))>>]

\* the value at the fixed offset of the general section is absent or not in
\* the valid range
FixedOffsetUnusable(b) ==
  \/ STEAM_ID_OFFSET + 8 > b.len
  \/ ~InSteamIdRange(Unpack(Slice(b, STEAM_ID_OFFSET, STEAM_ID_OFFSET + 8)))

\* how often v is among the candidates, and where it is first
CandidateCount(fnd, v) == Cardinality({k \in 1 .. Len(fnd) : fnd[k][2] = v})
FirstSeen(fnd, v) == SetMin({k \in 1 .. Len(fnd) : fnd[k][2] = v})
CandidateValues(fnd) == {fnd[k][2] : k \in 1 .. Len(fnd)}

\* C11: for Vanilla, and for SeamlessCoop when the value at the fixed offset
\* is absent or out of range, get_primary_steam_id returns the candidate
\* value of find_steam_ids that occurs most often, the one seen first among
\* those that occur equally often, and None exactly when there is no candidate
PrimarySelection ==
  ( /\ pc = "located"
    /\ save_type = VANILLA \/ FixedOffsetUnusable(data) ) =>
    /\ old_steam_id = NoneId <=> found = <<>>
    /\ found # <<>> =>
         /\ old_steam_id \in CandidateValues(found)
         /\ \A v \in CandidateValues(found) :
              /\ CandidateCount(found, v) <= CandidateCount(found, old_steam_id)
              /\ ( /\ v # old_steam_id
                   /\ CandidateCount(found, v) = CandidateCount(found, old_steam_id) )
                   => FirstSeen(found, old_steam_id) < FirstSeen(found, v)

\* two values seen equally often, and the one returned is not the last seen
C11Witness ==
  /\ pc = "located"
  /\ save_type = VANILLA \/ FixedOffsetUnusable(data)
  /\ Len(found) >= 2
  /\ \E v \in CandidateValues(found) :
       /\ v # old_steam_id
       /\ CandidateCount(found, v) = CandidateCount(found, old_steam_id)
  /\ found[Len(found)][2] # old_steam_id

----------------------------------------------------------------------------
(* Properties of the window *)

\* worker w has not yet handed its completion callback to the main thread
Converting(g, w) == g.workers[w].st \in {"converting", "returned", "raised"}

\* at most one worker converts, and the button is disabled while one does
\* and from the moment convert() has decided to start one
SingleOwner ==
  /\ Cardinality({w \in Workers(gui) : Converting(gui, w)}) <= 1
  /\ \A w \in Workers(gui) : Converting(gui, w) => gui.btn = "disabled"
  /\ Top(gui)[1] = "convert" => gui.btn = "disabled"

\* a step that starts a worker finds the button disabled
StartsDisabled ==
  Len(gui'.workers) > Len(gui.workers) => gui.btn = "disabled"

\* a step that enables the button is the end of on_success of a worker whose
\* convert_save has returned, or the end of on_error of one whose
\* convert_save has raised, after that worker has scheduled the callback
EnabledByCompletion ==
  (gui.btn = "disabled" /\ gui'.btn = "normal") =>
    /\ Top(gui)[1] \in {"showinfo", "failed"}
    /\ Top(gui)[2] \in Workers(gui)
    /\ ~Converting(gui, Top(gui)[2])
    /\ gui'.stack = SubSeq(gui.stack, 1, Len(gui.stack) - 1)

\* C12: under any interleaving of clicks, the worker thread and the callbacks
\* scheduled with root.after, at most one conversion worker runs at a time;
\* the convert button is disabled before the worker starts, and it is enabled
\* again only by the on_success or on_error callback that the worker
\* scheduled after convert_save returned or raised
SingleConversionOwner ==
  []SingleOwner /\ [][StartsDisabled /\ EnabledByCompletion]_vars

\* a second conversion runs after the first one has ended and the button was
\* enabled again, while a callback of it is still to run
C12Witness ==
  /\ Len(gui.workers) = 2
  /\ ~Converting(gui, 1)
  /\ Converting(gui, 2)
  /\ gui.queue # <<>>
  /\ gui.btn = "disabled"

====
